---------------------------- MODULE Spec2Model ----------------------------
(***************************************************************************)
(* csvdiff: key based reconciliation of two delimited files (csvdiff.go).  *)
(*                                                                         *)
(* A Row is a sequence of fields, a field is a string of bytes.  The nil   *)
(* Row of the Go code (length 0) is the empty sequence; a nil field of a   *)
(* freshly made Row is the empty string (the writer prints both alike).    *)
(* Field indexes are 0-based as in the code: field i of row r is r[i+1].   *)
(* A RowHash is modelled by the byte string the FNV-1a digest is computed  *)
(* over (the concatenation of the key fields); over the strings of this    *)
(* model the 64-bit digest is injective, so equal hashes are equal         *)
(* concatenations.                                                         *)
(***************************************************************************)
EXTENDS Integers, Sequences, FiniteSets, TLC

(* ------------------------------ bounds ------------------------------- *)
MaxRows == 2      \* rows per input file
RowWidths == {1, 2}   \* fields per row

Values == {"a", "b"}

Nil == <<>>
NilField == ""

RowsOfLen(n) == [1..n -> Values]
Rows == UNION {RowsOfLen(n) : n \in RowWidths}

RECURSIVE SeqsUpTo(_, _)
SeqsUpTo(S, n) ==
    IF n = 0 THEN {<<>>}
    ELSE LET shorter == SeqsUpTo(S, n - 1)
         IN  shorter \cup {Append(s, x) : s \in {t \in shorter : Len(t) = n - 1}, x \in S}

Files == SeqsUpTo(Rows, MaxRows)

\* longer files of full rows over three values, for the runs on a file and a
\* reordered copy of it
KeyValues == {"a", "b", "c"}
KeyedRows == [1..2 -> KeyValues]
KeyedFiles == SeqsUpTo(KeyedRows, MaxRows + 1)

\* files of rows of three fields, for the field by field comparison
WideRows == [1..3 -> Values]
WideFiles == SeqsUpTo(WideRows, MaxRows)

\* files of one row of one to five fields, for the rows of unequal length
RaggedRows == UNION {RowsOfLen(n) : n \in 1..5}
RaggedFiles == SeqsUpTo(RaggedRows, 1)

\* longer files of rows of two fields, for the rows that wait in the caches
LongFiles == SeqsUpTo(RowsOfLen(2), MaxRows + 1)

\* the sequences that list every element of S once
RECURSIVE Orderings(_)
Orderings(S) ==
    IF S = {} THEN {<<>>}
    ELSE UNION {{<<x>> \o t : t \in Orderings(S \ {x})} : x \in S}

\* the files that hold the rows of file in some order
Reorderings(file) ==
    {[i \in 1..Len(file) |-> file[o[i]]] : o \in Orderings(1..Len(file))}

(* ------------------------------ Config ------------------------------- *)
MkConfig(k, i, n, c, f) ==
    [keys |-> k, ignoredFields |-> i, noHeader |-> n, common |-> c,
     format |-> f, symbol |-> "|"]

Configs ==
    { MkConfig(<<0>>, {},  FALSE, FALSE, 1),
      MkConfig(<<0>>, {1}, TRUE,  TRUE,  2),
      MkConfig(<<1>>, {},  TRUE,  FALSE, 0),
      MkConfig(<<0, 1>>, {}, FALSE, TRUE, 1) }

WideConfigs ==
    { MkConfig(<<0>>, {},     FALSE, FALSE, 1),
      MkConfig(<<0>>, {1},    TRUE,  TRUE,  2),
      MkConfig(<<0>>, {2},    FALSE, TRUE,  0),
      MkConfig(<<0>>, {1, 2}, TRUE,  FALSE, 1),
      MkConfig(<<0, 1>>, {2}, FALSE, FALSE, 2),
      MkConfig(<<1>>, {0},    TRUE,  TRUE,  0) }

RaggedConfigs ==
    { MkConfig(<<0>>, {},  FALSE, FALSE, 0),
      MkConfig(<<0>>, {},  TRUE,  TRUE,  1),
      MkConfig(<<0>>, {},  TRUE,  FALSE, 2),
      MkConfig(<<0>>, {1}, FALSE, TRUE,  1) }

CopyConfigs ==
    { MkConfig(<<0>>, {1}, FALSE, TRUE,  1),
      MkConfig(<<1>>, {},  TRUE,  FALSE, 0) }

VARIABLES
    cfg,            \* *Config, immutable after parseArgs
    inA, inB,       \* the records of FILEA and FILEB
    posA, posB,     \* records consumed from readerA, readerB
    eofA, eofB,
    cacheA, cacheB, \* Cache: RowHash -> Row
    first,
    headers,
    modifiedFields,
    addedCount, modifiedCount, removedCount, totalCount,
    out,            \* rows written to the writer (stdout), in order
    err,            \* messages written to stderr, in order
    pc,             \* "loop", "exit", "done", "fatal", "panic"
    exitStatus

vars == <<cfg, inA, inB, posA, posB, eofA, eofB, cacheA, cacheB, first, headers,
          modifiedFields, addedCount, modifiedCount, removedCount, totalCount,
          out, err, pc, exitStatus>>

(* The mutable state of main as one record, so that the loop body is a    *)
(* function of the state.                                                  *)
Cur ==
    [posA |-> posA, posB |-> posB, eofA |-> eofA, eofB |-> eofB,
     cacheA |-> cacheA, cacheB |-> cacheB, first |-> first, headers |-> headers,
     modifiedFields |-> modifiedFields, addedCount |-> addedCount,
     modifiedCount |-> modifiedCount, removedCount |-> removedCount,
     totalCount |-> totalCount, out |-> out, err |-> err, pc |-> pc,
     exitStatus |-> exitStatus]

\* make(Cache)
EmptyCache == [h \in {} |-> Nil]

Start ==
    [posA |-> 0, posB |-> 0, eofA |-> FALSE, eofB |-> FALSE,
     cacheA |-> EmptyCache, cacheB |-> EmptyCache, first |-> TRUE, headers |-> Nil,
     modifiedFields |-> Nil, addedCount |-> 0, modifiedCount |-> 0,
     removedCount |-> 0, totalCount |-> 0, out |-> <<>>, err |-> <<>>,
     pc |-> "loop", exitStatus |-> -1]

Becomes(n) ==
    /\ posA' = n.posA /\ posB' = n.posB /\ eofA' = n.eofA /\ eofB' = n.eofB
    /\ cacheA' = n.cacheA /\ cacheB' = n.cacheB /\ first' = n.first
    /\ headers' = n.headers /\ modifiedFields' = n.modifiedFields
    /\ addedCount' = n.addedCount /\ modifiedCount' = n.modifiedCount
    /\ removedCount' = n.removedCount /\ totalCount' = n.totalCount
    /\ out' = n.out /\ err' = n.err /\ pc' = n.pc /\ exitStatus' = n.exitStatus
    /\ UNCHANGED <<cfg, inA, inB>>

(* ------------------------------ helpers ------------------------------ *)
Min(a, b) == IF a < b THEN a ELSE b
Max(a, b) == IF a > b THEN a ELSE b

\* log.Fatalf: the message goes to stderr and the process exits with status 1
Fatalf(s, msg) == [s EXCEPT !.err = Append(@, msg), !.pc = "fatal", !.exitStatus = 1]

\* a Go run-time panic (index out of range): exit status 2
Panic(s) == [s EXCEPT !.err = Append(@, [type |-> "panic"]), !.pc = "panic",
                      !.exitStatus = 2]

\* the key indexes checkRow rejects, in the order of config.keys
BadKeys(rowA, rowB, config) ==
    SelectSeq(config.keys, LAMBDA key : key >= Len(rowA) \/ key >= Len(rowB))

BadIgnored(rowA, rowB, config) ==
    {field \in config.ignoredFields : field >= Len(rowA) \/ field >= Len(rowB)}

\* the messages checkRow can die with (none: the rows pass); the ignored
\* fields are visited in map order, so any offending one may be reported
checkRow(rowA, rowB, config) ==
    IF BadKeys(rowA, rowB, config) # <<>>
    THEN {[type |-> "fatal", what |-> "Key index", index |-> Head(BadKeys(rowA, rowB, config)) + 1]}
    ELSE {[type |-> "fatal", what |-> "Ignored field", index |-> field + 1] :
             field \in BadIgnored(rowA, rowB, config)}

RECURSIVE HashWrite(_, _, _)
HashWrite(row, keys, acc) ==
    IF keys = <<>> THEN acc
    ELSE HashWrite(row, Tail(keys), acc \o row[Head(keys) + 1])

\* row[i] panics when a key index is not a position of the row
HashPanics(row, keys) == \E j \in 1..Len(keys) : keys[j] < 0 \/ keys[j] >= Len(row)

hashRow(row, keys) == HashWrite(row, keys, "")

ESC == "\\x1b"

concat(valueA, valueB, format, symbol) ==
    CASE format = 1 -> valueA \o symbol \o "-" \o symbol \o valueB
      [] format = 2 -> valueA \o "\n" \o valueB
      [] OTHER -> ESC \o "[1m" \o valueA \o ESC \o "[0m" \o symbol
                  \o ESC \o "[1m" \o valueB \o ESC \o "[0m"

update(mf, i) ==
    IF mf # Nil /\ i < Len(mf) THEN [mf EXCEPT ![i + 1] = TRUE] ELSE mf

\* make(Row, n): n nil fields
MakeRow(n) == [j \in 1..n |-> NilField]

\* the delta row made one field too short
NewDeltaShort(maxLen) == [MakeRow(maxLen) EXCEPT ![1] = "#"]

\* rowDelta = make(Row, maxLen+1); rowDelta[0] = '#'
NewDelta(maxLen) == [MakeRow(maxLen + 1) EXCEPT ![1] = "#"]

\* the copy of line 173 left out
CopyNothing(rowDelta, rowA, i) == rowDelta

\* copy(rowDelta[1:], rowA[0:i])
CopyPrefix(rowDelta, rowA, i) ==
    [j \in 1..Len(rowDelta) |-> IF j >= 2 /\ j <= i + 1 THEN rowA[j - 1] ELSE rowDelta[j]]

\* the loop over the common positions, for i in [i, minLen)
RECURSIVE CommonLoop(_, _, _, _, _, _, _)
CommonLoop(i, minLen, maxLen, rowA, rowB, config, acc) ==
    IF i >= minLen THEN acc
    ELSE IF i \notin config.ignoredFields /\ rowA[i + 1] # rowB[i + 1]
    THEN LET d0 == IF acc.same THEN CopyPrefix(NewDelta(maxLen), rowA, i)
                   ELSE acc.rowDelta
             d1 == [d0 EXCEPT ![i + 2] =
                       concat(rowA[i + 1], rowB[i + 1], config.format, config.symbol)]
         IN  CommonLoop(i + 1, minLen, maxLen, rowA, rowB, config,
                        [rowDelta |-> d1, same |-> FALSE,
                         modifiedFields |-> update(acc.modifiedFields, i)])
    ELSE IF ~acc.same
    THEN CommonLoop(i + 1, minLen, maxLen, rowA, rowB, config,
                    [acc EXCEPT !.rowDelta[i + 2] = rowA[i + 1]])
    ELSE CommonLoop(i + 1, minLen, maxLen, rowA, rowB, config, acc)

\* the loop over the positions of the longer row only, for i in [i, maxLen)
RECURSIVE TailLoop(_, _, _, _, _, _, _)
TailLoop(i, maxLen, longest, rowA, rowB, config, acc) ==
    IF i >= maxLen THEN acc
    ELSE IF i \in config.ignoredFields
    THEN TailLoop(i + 1, maxLen, longest, rowA, rowB, config, acc)
    ELSE IF longest = 1
    THEN TailLoop(i + 1, maxLen, longest, rowA, rowB, config,
                  [acc EXCEPT !.rowDelta[i + 2] =
                                  concat(rowA[i + 1], "_", config.format, config.symbol),
                              !.modifiedFields = update(@, i)])
    ELSE IF longest = 2
    THEN TailLoop(i + 1, maxLen, longest, rowA, rowB, config,
                  [acc EXCEPT !.rowDelta[i + 2] =
                                  concat("_", rowB[i + 1], config.format, config.symbol),
                              !.modifiedFields = update(@, i)])
    ELSE TailLoop(i + 1, maxLen, longest, rowA, rowB, config, acc)

\* (rowDelta, same) and the modifiedFields vector as update left it
areEquals(rowA, rowB, config, mf) ==
    LET maxLen  == Max(Len(rowA), Len(rowB))
        minLen  == Min(Len(rowA), Len(rowB))
        longest == IF Len(rowA) > Len(rowB) THEN 1
                   ELSE IF maxLen > minLen THEN 2 ELSE 0
        same0   == longest = 0
        acc0    == [rowDelta |-> IF same0 THEN Nil ELSE NewDelta(maxLen),
                    same |-> same0, modifiedFields |-> mf]
        acc1    == CommonLoop(0, minLen, maxLen, rowA, rowB, config, acc0)
    IN  TailLoop(minLen, maxLen, longest, rowA, rowB, config, acc1)

delta(row, sign) == <<sign>> \o row

\* deepCopy: a Row of the same bytes
deepCopy(row) == row

writeRow(s, row) == [s EXCEPT !.out = Append(@, row)]

Has(cache, key) == key \in DOMAIN cache

Put(cache, key, row) ==
    [h \in DOMAIN cache \cup {key} |-> IF h = key THEN row ELSE cache[h]]

Delete(cache, key) == [h \in DOMAIN cache \ {key} |-> cache[h]]

\* searchCache without the delete
searchCacheKeeps(cache, key) ==
    IF Has(cache, key)
    THEN [row |-> cache[key], found |-> TRUE, cache |-> cache]
    ELSE [row |-> Nil, found |-> FALSE, cache |-> cache]

\* (row, found) and the cache after the lookup
searchCache(cache, key) ==
    IF Has(cache, key)
    THEN [row |-> cache[key], found |-> TRUE, cache |-> Delete(cache, key)]
    ELSE [row |-> Nil, found |-> FALSE, cache |-> cache]

\* readRow that never reports the end of the file
readRowNoEof(in, pos, pEof) ==
    IF pEof THEN [row |-> Nil, eof |-> TRUE, pos |-> pos]
    ELSE IF pos < Len(in) THEN [row |-> in[pos + 1], eof |-> FALSE, pos |-> pos + 1]
    ELSE [row |-> Nil, eof |-> FALSE, pos |-> pos]

\* (row, eof) and the position of the reader after the call
readRow(in, pos, pEof) ==
    IF pEof THEN [row |-> Nil, eof |-> TRUE, pos |-> pos]
    ELSE IF pos < Len(in) THEN [row |-> in[pos + 1], eof |-> FALSE, pos |-> pos + 1]
    ELSE [row |-> Nil, eof |-> TRUE, pos |-> pos]

(* --------------------------- the loop body --------------------------- *)
\* lines 296-320: rowA and rowB have the same hash
Aligned(s, rowA, rowB, config) ==
    LET r  == areEquals(rowA, rowB, config, s.modifiedFields)
        s0 == [s EXCEPT !.modifiedFields = r.modifiedFields]
    IN  IF r.same
        THEN IF s0.first
             THEN LET s1 == [s0 EXCEPT !.first = FALSE]
                      s2 == IF ~config.noHeader
                            THEN [writeRow(s1, delta(rowA, "=")) EXCEPT
                                     !.headers = deepCopy(rowA)]
                            ELSE IF config.common
                            THEN writeRow(s1, delta(rowA, "="))
                            ELSE s1
                  IN  [s2 EXCEPT !.modifiedFields = [j \in 1..Len(rowA) |-> FALSE]]
             ELSE IF config.common THEN writeRow(s0, delta(rowA, "="))
             ELSE s0
        ELSE LET s1 == [writeRow(s0, r.rowDelta) EXCEPT !.modifiedCount = @ + 1]
             IN  IF s1.first
                 THEN [s1 EXCEPT
                          !.first = FALSE,
                          !.headers = IF ~config.noHeader
                                      THEN deepCopy(Tail(r.rowDelta)) ELSE @,
                          !.modifiedFields =
                              [j \in 1..(Len(r.rowDelta) - 1) |-> FALSE]]
                 ELSE s1

\* Paired without the count of the modified row
PairedUncounted(s, rowA, rowB, shown, config) ==
    LET r  == areEquals(rowA, rowB, config, s.modifiedFields)
        s0 == [s EXCEPT !.modifiedFields = r.modifiedFields]
    IN  IF ~r.same THEN writeRow(s0, r.rowDelta)
        ELSE IF config.common THEN writeRow(s0, delta(shown, "="))
        ELSE s0

\* lines 324-329 and 338-343: a pair formed through a cache; shown is the
\* row that was just read
Paired(s, rowA, rowB, shown, config) ==
    LET r  == areEquals(rowA, rowB, config, s.modifiedFields)
        s0 == [s EXCEPT !.modifiedFields = r.modifiedFields]
    IN  IF ~r.same
        THEN [writeRow(s0, r.rowDelta) EXCEPT !.modifiedCount = @ + 1]
        ELSE IF config.common THEN writeRow(s0, delta(shown, "="))
        ELSE s0

DupWarning(side, row) == [type |-> "duplicate", input |-> side, row |-> row]

\* the probe for A that leaves the row it pairs in cache B
ProbeForAKeeps(s, rowA, hashA, config) ==
    LET sc == searchCache(s.cacheB, hashA)
    IN  IF sc.found
        THEN Paired(s, rowA, sc.row, rowA, config)
        ELSE LET s1 == IF Has(s.cacheA, hashA)
                       THEN [s EXCEPT !.err = Append(@, DupWarning("first", rowA))]
                       ELSE s
             IN  [s1 EXCEPT !.cacheA = Put(@, hashA, deepCopy(rowA))]

\* lines 322-335
ProbeForA(s, rowA, hashA, config) ==
    LET sc == searchCache(s.cacheB, hashA)
    IN  IF sc.found
        THEN Paired([s EXCEPT !.cacheB = sc.cache], rowA, sc.row, rowA, config)
        ELSE LET s1 == IF Has(s.cacheA, hashA)
                       THEN [s EXCEPT !.err = Append(@, DupWarning("first", rowA))]
                       ELSE s
             IN  [s1 EXCEPT !.cacheA = Put(@, hashA, deepCopy(rowA))]

\* the row of FILEB stored without a look at cache A
ProbeForBStores(s, rowB, hashB, config) ==
    LET s1 == IF Has(s.cacheB, hashB)
              THEN [s EXCEPT !.err = Append(@, DupWarning("second", rowB))]
              ELSE s
    IN  [s1 EXCEPT !.cacheB = Put(@, hashB, deepCopy(rowB))]

\* lines 336-349
ProbeForB(s, rowB, hashB, config) ==
    LET sc == searchCache(s.cacheA, hashB)
    IN  IF sc.found
        THEN Paired([s EXCEPT !.cacheA = sc.cache], sc.row, rowB, rowB, config)
        ELSE LET s1 == IF Has(s.cacheB, hashB)
                       THEN [s EXCEPT !.err = Append(@, DupWarning("second", rowB))]
                       ELSE s
             IN  [s1 EXCEPT !.cacheB = Put(@, hashB, deepCopy(rowB))]

\* the dispatch with the probe for B left out when the probe for A hit
DispatchOneProbe(s, rowA, rowB, hashA, hashB, config) ==
    IF rowA = Nil
    THEN [writeRow(s, delta(rowB, "+")) EXCEPT !.addedCount = @ + 1]
    ELSE IF rowB = Nil
    THEN [writeRow(s, delta(rowA, "-")) EXCEPT !.removedCount = @ + 1]
    ELSE IF hashA = hashB
    THEN Aligned(s, rowA, rowB, config)
    ELSE IF Has(s.cacheB, hashA)
    THEN ProbeForA(s, rowA, hashA, config)
    ELSE ProbeForB(ProbeForA(s, rowA, hashA, config), rowB, hashB, config)

\* lines 285-350, once both rows and both hashes are settled
Dispatch(s, rowA, rowB, hashA, hashB, config) ==
    IF rowA = Nil
    THEN [writeRow(s, delta(rowB, "+")) EXCEPT !.addedCount = @ + 1]
    ELSE IF rowB = Nil
    THEN [writeRow(s, delta(rowA, "-")) EXCEPT !.removedCount = @ + 1]
    ELSE IF hashA = hashB
    THEN Aligned(s, rowA, rowB, config)
    ELSE ProbeForB(ProbeForA(s, rowA, hashA, config), rowB, hashB, config)

\* lines 273-283 and on: the rows passed checkRow (or first is false)
Classify(s, rowA, rowB, config) ==
    LET s1 == [s EXCEPT !.totalCount = @ + 1]
    IN  IF rowA # Nil /\ rowB # Nil
        THEN IF HashPanics(rowA, config.keys) \/ HashPanics(rowB, config.keys)
             THEN Panic(s1)
             ELSE Dispatch(s1, rowA, rowB, hashRow(rowA, config.keys),
                           hashRow(rowB, config.keys), config)
        ELSE IF rowA # Nil
        THEN IF HashPanics(rowA, config.keys) THEN Panic(s1)
             ELSE LET hashA == hashRow(rowA, config.keys)
                      sc    == searchCache(s1.cacheB, hashA)
                  IN  Dispatch([s1 EXCEPT !.cacheB = sc.cache], rowA, sc.row,
                               hashA, hashA, config)
        ELSE IF HashPanics(rowB, config.keys) THEN Panic(s1)
             ELSE LET hashB == hashRow(rowB, config.keys)
                      sc    == searchCache(s1.cacheA, hashB)
                  IN  Dispatch([s1 EXCEPT !.cacheA = sc.cache], sc.row, rowB,
                               hashB, hashB, config)

\* one iteration of the loop of main (lines 258-351): the states it can end in
IterOutcomes(s, fileA, fileB, config) ==
    LET ra == readRow(fileA, s.posA, s.eofA)
        rb == readRow(fileB, s.posB, s.eofB)
        s1 == [s EXCEPT !.posA = ra.pos, !.eofA = ra.eof,
                        !.posB = rb.pos, !.eofB = rb.eof]
    IN  IF ra.row = Nil /\ rb.row = Nil THEN {s1}
        ELSE IF s1.first /\ checkRow(ra.row, rb.row, config) # {}
        THEN {Fatalf(s1, msg) : msg \in checkRow(ra.row, rb.row, config)}
        ELSE {Classify(s1, ra.row, rb.row, config)}

RECURSIVE DrainCache(_, _, _, _)
DrainCache(s, cache, order, sign) ==
    IF order = <<>> THEN s
    ELSE LET s1 == writeRow(s, delta(cache[Head(order)], sign))
         IN  DrainCache(IF sign = "-" THEN [s1 EXCEPT !.removedCount = @ + 1]
                        ELSE [s1 EXCEPT !.addedCount = @ + 1],
                        cache, Tail(order), sign)

\* the drain without the loop over cache B
DrainOnlyA(s, orderA, orderB) ==
    [DrainCache(s, s.cacheA, orderA, "-") EXCEPT !.pc = "exit"]

\* lines 352-359; the maps are ranged over in the orders orderA, orderB
DrainBoth(s, orderA, orderB) ==
    [DrainCache(DrainCache(s, s.cacheA, orderA, "-"), s.cacheB, orderB, "+")
        EXCEPT !.pc = "exit"]

\* lines 367-380: the labels of the modified fields
RECURSIVE ModifiedList(_, _, _)
ModifiedList(mf, hdrs, i) ==
    IF i >= Len(mf) THEN <<>>
    ELSE (IF mf[i + 1]
          THEN <<[index |-> i + 1,
                  name |-> IF hdrs # Nil THEN <<hdrs[i + 1]>> ELSE <<>>]>>
          ELSE <<>>) \o ModifiedList(mf, hdrs, i + 1)

\* Finish with the modified rows left out of the test of line 364
FinishForgetsModified(s) ==
    IF s.addedCount > 0 \/ s.removedCount > 0
    THEN [s EXCEPT !.pc = "done", !.exitStatus = 1]
    ELSE [s EXCEPT !.pc = "done", !.exitStatus = 0]

\* lines 360-383
Finish(s) ==
    IF s.addedCount > 0 \/ s.removedCount > 0 \/ s.modifiedCount > 0
    THEN LET total == [type |-> "summary", total |-> s.totalCount,
                       removed |-> s.removedCount, added |-> s.addedCount,
                       modified |-> s.modifiedCount]
             lines == IF s.modifiedCount > 0
                      THEN <<total, [type |-> "modified fields",
                                     fields |-> ModifiedList(s.modifiedFields, s.headers, 0)]>>
                      ELSE <<total>>
         IN  [s EXCEPT !.err = @ \o lines, !.pc = "done", !.exitStatus = 1]
    ELSE [s EXCEPT !.pc = "done", !.exitStatus = 0]

(* ------------------------------ actions ------------------------------ *)
\* the state main enters its loop in (lines 245-257)
Fresh ==
    /\ posA = 0 /\ posB = 0 /\ eofA = FALSE /\ eofB = FALSE
    /\ cacheA = EmptyCache /\ cacheB = EmptyCache
    /\ first = TRUE /\ headers = Nil /\ modifiedFields = Nil
    /\ addedCount = 0 /\ modifiedCount = 0 /\ removedCount = 0 /\ totalCount = 0
    /\ out = <<>> /\ err = <<>> /\ pc = "loop" /\ exitStatus = -1

Init == cfg \in Configs /\ inA \in Files /\ inB \in Files /\ Fresh

\* one pass of "for !eofA || !eofB"
Iterate ==
    /\ pc = "loop"
    /\ ~eofA \/ ~eofB
    /\ \E n \in IterOutcomes(Cur, inA, inB, cfg) : Becomes(n)

\* readRow dies on a read error of either reader (line 403)
ReadError ==
    /\ pc = "loop"
    /\ ~eofA \/ ~eofB
    /\ Becomes(Fatalf(Cur, [type |-> "fatal", what |-> "Error while reading file",
                            index |-> 0]))

\* the loop is left and both caches are flushed
Drain ==
    /\ pc = "loop"
    /\ eofA /\ eofB
    /\ \E orderA \in Orderings(DOMAIN cacheA), orderB \in Orderings(DOMAIN cacheB) :
           Becomes(DrainBoth(Cur, orderA, orderB))

\* the summary and the exit status
Exit ==
    /\ pc = "exit"
    /\ Becomes(Finish(Cur))

Next == Iterate \/ ReadError \/ Drain \/ Exit

Spec == Init /\ [][Next]_vars

\* FILEB holds the rows of FILEA, in any order
InitCopy ==
    cfg \in CopyConfigs /\ inA \in KeyedFiles /\ inB \in Reorderings(inA) /\ Fresh

SpecCopy == InitCopy /\ [][Next]_vars

InitWide ==
    cfg \in WideConfigs /\ inA \in WideFiles /\ inB \in WideFiles /\ Fresh

SpecWide == InitWide /\ [][Next]_vars

InitRagged ==
    cfg \in RaggedConfigs /\ inA \in RaggedFiles /\ inB \in RaggedFiles /\ Fresh

SpecRagged == InitRagged /\ [][Next]_vars

InitLong ==
    cfg \in Configs /\ inA \in LongFiles /\ inB \in LongFiles /\ Fresh

SpecLong == InitLong /\ [][Next]_vars

(* ------------------------------ claims ------------------------------- *)
\* no two rows of the file have the same key hash
UniqueKeys(file, config) ==
    \A i, j \in 1..Len(file) :
        i # j => hashRow(file[i], config.keys) # hashRow(file[j], config.keys)

NoDifference ==
    addedCount = 0 /\ removedCount = 0 /\ modifiedCount = 0 /\ exitStatus = 0

\* C1 as stated: whenever FILEB holds exactly the rows of FILEA, in any order,
\* a complete run ends with added = removed = modified = 0 and exit status 0
\* (under SpecCopy every FILEB is a reordering of FILEA).
C1_IdentityAnyDataset == pc = "done" => NoDifference

\* C1, amended: when FILEB holds exactly the rows of FILEA, in any order, and
\* no two rows of the dataset have the same key hash, a complete run ends
\* with added = removed = modified = 0 and exit status 0.
C1_Identity == (pc = "done" /\ UniqueKeys(inA, cfg)) => NoDifference

C1_Witness ==
    /\ pc = "done" /\ UniqueKeys(inA, cfg) /\ Len(inA) = MaxRows + 1
    /\ \A i \in 1..Len(inA) : inA[i] # inB[i]
    /\ NoDifference

Differences == addedCount + removedCount + modifiedCount

Ended == pc \in {"done", "fatal", "panic"}

\* C2 as stated: however the run ends (normal completion or fatal abort), the
\* exit status is 1 if and only if added + removed + modified > 0, and it is
\* 0 when no difference was observed.
C2_ExitLawAnyEnd ==
    Ended => /\ (exitStatus = 1 <=> Differences > 0)
             /\ (Differences = 0 => exitStatus = 0)

\* C2, amended: a run that completes normally exits with status 1 if and
\* only if added + removed + modified > 0 and with status 0 otherwise; a run
\* that aborts exits with a non-zero status whatever the counters hold.
C2_ExitLaw ==
    /\ pc = "done" => exitStatus = (IF Differences > 0 THEN 1 ELSE 0)
    /\ pc = "fatal" => exitStatus = 1
    /\ pc = "panic" => exitStatus = 2

C2_Witness == pc = "done" /\ modifiedCount > 0 /\ addedCount = 0 /\ exitStatus = 1

\* every key index and every ignored index is a position of every row of
\* both files
IndexesInRange ==
    \A file \in {inA, inB} : \A i \in 1..Len(file) :
        /\ \A j \in 1..Len(cfg.keys) : cfg.keys[j] >= 0 /\ cfg.keys[j] < Len(file[i])
        /\ \A f \in cfg.ignoredFields : f >= 0 /\ f < Len(file[i])

ReadFailed == \E i \in 1..Len(err) : err[i].type = "fatal" /\ err[i].index = 0

\* the run is over, the configuration fits the data and no read failed
Settled == Ended /\ IndexesInRange /\ ~ReadFailed

Count(seq, x) == Cardinality({i \in 1..Len(seq) : seq[i] = x})

Marked(sign) == Cardinality({i \in 1..Len(out) : out[i][1] = sign})

KeysOf(file) == {hashRow(file[i], cfg.keys) : i \in 1..Len(file)}

\* every row of file whose key is not among those of other is written once
\* with the sign, as often as the row occurs in file
OnlyHereOnce(file, other, sign) ==
    \A i \in 1..Len(file) :
        hashRow(file[i], cfg.keys) \notin KeysOf(other)
            => Count(out, delta(file[i], sign)) = Count(file, file[i])

OnlyHere(file, other) ==
    {i \in 1..Len(file) : hashRow(file[i], cfg.keys) \notin KeysOf(other)}

\* C3 (for a configuration that fits the data, reads that succeed): once the
\* run is over every row of FILEB whose key is on no row of FILEA has been
\* written exactly once as a "+" row with all its fields and counted once in
\* added; likewise "-" and removed for the rows of FILEA whose key is on no
\* row of FILEB; also when the other file is shorter or empty.
C3_PureAddRemove ==
    Settled =>
        /\ OnlyHereOnce(inB, inA, "+")
        /\ OnlyHereOnce(inA, inB, "-")
        /\ addedCount >= Cardinality(OnlyHere(inB, inA))
        /\ removedCount >= Cardinality(OnlyHere(inA, inB))

\* a whole run of main from state s on the files fa and fb (one of the runs
\* the map orders allow: they differ in the order of the drained rows only)
RECURSIVE RunFrom(_, _, _, _)
RunFrom(s, fa, fb, config) ==
    IF s.pc = "loop" /\ (~s.eofA \/ ~s.eofB)
    THEN RunFrom(CHOOSE n \in IterOutcomes(s, fa, fb, config) : TRUE, fa, fb, config)
    ELSE IF s.pc = "loop"
    THEN RunFrom(DrainBoth(s, CHOOSE o \in Orderings(DOMAIN s.cacheA) : TRUE,
                           CHOOSE o \in Orderings(DOMAIN s.cacheB) : TRUE),
                 fa, fb, config)
    ELSE IF s.pc = "exit" THEN Finish(s)
    ELSE s

\* the classified outcomes of a run: how often each "+", "-" and "#" row was
\* written, and the four counters
Outcomes(s) ==
    [rows |-> [r \in {s.out[i] : i \in {j \in 1..Len(s.out) : s.out[j][1] # "="}} |->
                  Cardinality({i \in 1..Len(s.out) : s.out[i] = r})],
     added |-> s.addedCount, removed |-> s.removedCount,
     modified |-> s.modifiedCount, total |-> s.totalCount]

\* C4 (for a configuration that fits the data, reads that succeed): when the
\* keys are unique within each file, the run on any reordering of FILEA, and
\* the run on any reordering of FILEB, end with the same classified outcomes
\* and the same counters as this run, whatever the lengths of the files.
C4_OrderIndependence ==
    (Settled /\ UniqueKeys(inA, cfg) /\ UniqueKeys(inB, cfg)) =>
        /\ \A fa \in Reorderings(inA) :
               Outcomes(RunFrom(Start, fa, inB, cfg)) = Outcomes(Cur)
        /\ \A fb \in Reorderings(inB) :
               Outcomes(RunFrom(Start, inA, fb, cfg)) = Outcomes(Cur)

(* What one pass of the loop is expected to pair, told from the state the   *)
(* pass starts in.                                                          *)
NextA == IF ~eofA /\ posA < Len(inA) THEN inA[posA + 1] ELSE Nil
NextB == IF ~eofB /\ posB < Len(inB) THEN inB[posB + 1] ELSE Nil

\* a pass that classified the rows it read and went on
Classified == pc = "loop" /\ pc' = "loop" /\ (posA' > posA \/ posB' > posB)

KeyOf(row) == hashRow(row, cfg.keys)

Pair(rowA, rowB, how) == [a |-> rowA, b |-> rowB, via |-> how]

\* the pairs of a classifying pass, the pair of the row of FILEA first
PairsOfPass ==
    LET ra == NextA
        rb == NextB
    IN  IF ra # Nil /\ rb # Nil /\ KeyOf(ra) = KeyOf(rb) THEN <<Pair(ra, rb, "aligned")>>
        ELSE (IF ra # Nil /\ KeyOf(ra) \in DOMAIN cacheB
              THEN <<Pair(ra, cacheB[KeyOf(ra)], "cacheB")>> ELSE <<>>)
             \o (IF rb # Nil /\ KeyOf(rb) \in DOMAIN cacheA
                 THEN <<Pair(cacheA[KeyOf(rb)], rb, "cacheA")>> ELSE <<>>)

\* the rows the pass wrote, and the "#" rows among them
Written == SubSeq(out', Len(out) + 1, Len(out'))
WrittenMarked(sign) == SelectSeq(Written, LAMBDA row : row[1] = sign)

\* the positions, from 0, where the rows of the pair differ and that are not
\* ignored
Differing(p) ==
    {i \in 0..(Min(Len(p.a), Len(p.b)) - 1) :
        i \notin cfg.ignoredFields /\ p.a[i + 1] # p.b[i + 1]}

OneFieldDiffers(p) == Len(p.a) = Len(p.b) /\ Cardinality(Differing(p)) = 1

\* row is the "#" row of the pair p, whose rows differ at position i only
OneFieldDelta(row, p, i) ==
    /\ Len(row) = Len(p.a) + 1
    /\ row[1] = "#"
    /\ row[i + 2] = concat(p.a[i + 1], p.b[i + 1], cfg.format, cfg.symbol)
    /\ \A j \in 0..(Len(p.a) - 1) : j # i => row[j + 2] \in {p.a[j + 1], p.b[j + 1]}

C5_PassHolds ==
    LET deltas == WrittenMarked("#")
    IN  /\ modifiedCount' = modifiedCount + Len(deltas)
        /\ \A n \in 1..Len(PairsOfPass) :
               LET p == PairsOfPass[n]
                   mine == {k \in 1..Len(deltas) : KeyOf(Tail(deltas[k])) = KeyOf(p.a)}
               IN  OneFieldDiffers(p) =>
                       /\ Cardinality(mine) = 1
                       /\ \A k \in mine, i \in Differing(p) : OneFieldDelta(deltas[k], p, i)

\* C5: whenever a pass of the loop pairs two rows of one key and one length
\* that differ in exactly one field that is not ignored (an aligned pair, or
\* a pair with a row taken from either cache), it writes exactly one "#" row
\* for the pair, in which that position holds the two-value encoding of the
\* value of A and the value of B and every other position a single value of
\* the pair, and the modified counter grows by one for each "#" row written.
C5_OneFieldModified == [][Classified => C5_PassHolds]_vars

\* a "#" row for a pair found through a cache, whose rows also differ in an
\* ignored field, has been written
C5_Witness ==
    /\ pc = "loop" /\ posA = 2 /\ posB = 2 /\ modifiedCount = 2 /\ Len(out) = 2
    /\ cfg.ignoredFields # {}
    /\ KeyOf(inA[1]) # KeyOf(inA[2])
    /\ KeyOf(inA[1]) = KeyOf(inB[2]) /\ KeyOf(inA[2]) = KeyOf(inB[1])
    /\ OneFieldDiffers(Pair(inA[2], inB[1], "cacheB"))
    /\ OneFieldDiffers(Pair(inA[1], inB[2], "cacheA"))
    /\ Cardinality({k \in 1..3 : inA[2][k] # inB[1][k]}) = 2

\* every position at which the rows of the pair differ, by content or by
\* being on the longer row only, is ignored
OnlyIgnoredDiffer(p) ==
    /\ Differing(p) = {}
    /\ \A i \in Min(Len(p.a), Len(p.b))..(Max(Len(p.a), Len(p.b)) - 1) :
           i \in cfg.ignoredFields

DeltasFor(p) ==
    {k \in 1..Len(WrittenMarked("#")) : KeyOf(Tail(WrittenMarked("#")[k])) = KeyOf(p.a)}

C6_PassHolds ==
    /\ \A n \in 1..Len(PairsOfPass) :
           OnlyIgnoredDiffer(PairsOfPass[n]) => DeltasFor(PairsOfPass[n]) = {}
    /\ (\A n \in 1..Len(PairsOfPass) : OnlyIgnoredDiffer(PairsOfPass[n]))
           => modifiedCount' = modifiedCount

\* C6: whenever a pass of the loop pairs two rows of one key that differ only
\* at ignored positions (in content, or because the position is on one row
\* only), the pair is unchanged: no "#" row is written for it and the
\* modified counter stays as it is.
C6_IgnoredNeverModified == [][Classified => C6_PassHolds]_vars

\* rows of one key and of different lengths that agree on the fields both have
RaggedPair(rowA, rowB) ==
    /\ Len(rowA) # Len(rowB)
    /\ hashRow(rowA, cfg.keys) = hashRow(rowB, cfg.keys)
    /\ \A j \in 1..Min(Len(rowA), Len(rowB)) : rowA[j] = rowB[j]

\* the "#" row of a ragged pair: the marker, the m common values, then the
\* values of the longer row against the placeholder, which is the old value
\* when rowA is the shorter row and the new value when rowB is
RaggedDelta(row, rowA, rowB) ==
    LET m == Min(Len(rowA), Len(rowB))
        n == Max(Len(rowA), Len(rowB))
    IN  /\ Len(row) = n + 1
        /\ row[1] = "#"
        /\ \A j \in 1..m : row[j + 1] = rowA[j]
        /\ \A j \in (m + 1)..n :
               row[j + 1] = IF Len(rowA) < Len(rowB)
                            THEN concat("_", rowB[j], cfg.format, cfg.symbol)
                            ELSE concat(rowA[j], "_", cfg.format, cfg.symbol)

\* C7: with no ignored fields, the comparison of a row of m fields with a
\* row of n > m fields of the same key and the same first m fields writes a
\* "#" row of length n+1 that holds the common values at positions 1..m and,
\* at positions m+1..n, the two-value encoding of the value of the longer row
\* against the placeholder "_": placeholder old when A is shorter, new when B
\* is shorter.
C7_RaggedRows ==
    (posA = 1 /\ posB = 1 /\ cfg.ignoredFields = {} /\ RaggedPair(inA[1], inB[1]))
        => /\ Len(out) = 1
           /\ RaggedDelta(out[1], inA[1], inB[1])
           /\ modifiedCount = 1

\* the case of the spec: three fields against five, either way round
C7_Witness ==
    /\ posA = 1 /\ posB = 1 /\ cfg.ignoredFields = {} /\ RaggedPair(inA[1], inB[1])
    /\ Len(inA[1]) = 5 /\ Len(inB[1]) = 3
    /\ Len(out) = 1 /\ Len(out[1]) = 6 /\ pc = "done"

\* a pass of the loop that read a row, however it ended
Pass == pc = "loop" /\ (posA' > posA \/ posB' > posB)

Misaligned == NextA # Nil /\ NextB # Nil /\ KeyOf(NextA) # KeyOf(NextB)

\* the pass has to store the row of FILEA, of FILEB
StoresA == Misaligned /\ KeyOf(NextA) \notin DOMAIN cacheB
StoresB == Misaligned /\ KeyOf(NextB) \notin DOMAIN cacheA

\* ... over a waiting row of the same key
DuplicateA == StoresA /\ KeyOf(NextA) \in DOMAIN cacheA
DuplicateB == StoresB /\ KeyOf(NextB) \in DOMAIN cacheB

\* the duplicate warnings of the pass
Warned ==
    SelectSeq(SubSeq(err', Len(err) + 1, Len(err')), LAMBDA m : m.type = "duplicate")

\* the "#" row the pair is due, if any
DeltaDue(p) ==
    IF areEquals(p.a, p.b, cfg, Nil).same THEN <<>>
    ELSE <<areEquals(p.a, p.b, cfg, Nil).rowDelta>>

RECURSIVE DeltasDue(_)
DeltasDue(pairs) ==
    IF pairs = <<>> THEN <<>> ELSE DeltaDue(Head(pairs)) \o DeltasDue(Tail(pairs))

\* the second row of a key replaces the first, at the price of one warning
C8_Replaces ==
    /\ StoresA => cacheA'[KeyOf(NextA)] = NextA
    /\ StoresB => cacheB'[KeyOf(NextB)] = NextB
    /\ Warned = (IF DuplicateA THEN <<DupWarning("first", NextA)>> ELSE <<>>)
                \o (IF DuplicateB THEN <<DupWarning("second", NextB)>> ELSE <<>>)
    /\ (DuplicateA \/ DuplicateB) => pc' = "loop"

\* the row was stored over a waiting row of its key
ReplacedEarlier(side, row) == \E i \in 1..Len(err) : err[i] = DupWarning(side, row)

\* the pair p of the pass was made: its "#" row, if it is due one, is written
Made(p) ==
    DeltaDue(p) # <<>> =>
        \E k \in 1..Len(WrittenMarked("#")) : <<WrittenMarked("#")[k]>> = DeltaDue(p)

\* a row that is looked up in the other cache, where a second row of its key
\* waits, is paired with that row, which leaves the cache
C8_PairsSecond ==
    \A n \in 1..Len(PairsOfPass) :
        LET p == PairsOfPass[n]
        IN  /\ (p.via = "cacheA" /\ ReplacedEarlier("first", p.a))
                   => (KeyOf(NextB) \notin DOMAIN cacheA' /\ Made(p))
            /\ (p.via = "cacheB" /\ ReplacedEarlier("second", p.b))
                   => (KeyOf(NextA) \notin DOMAIN cacheB' /\ Made(p))

\* C8: when a second row of a key is stored over a waiting row of the same
\* side, it replaces that row, exactly one warning is written and the run
\* goes on; and a later row of that key from the other side (one that is not
\* read together with a further row of that key) is paired with the second
\* row, never with the first.
C8_DuplicateKey == [][Pass => (C8_Replaces /\ C8_PairsSecond)]_vars


\* the step that leaves the loop and flushes the caches
Drained == pc = "loop" /\ pc' = "exit"

RowsIn(cache) == {cache[h] : h \in DOMAIN cache}

\* C9: on normal completion the drain writes every row still held in cache A
\* exactly once as a "-" row and counts it in removed, every row still held
\* in cache B exactly once as a "+" row and counts it in added, in some
\* order, and writes nothing else.
C9_Drain ==
    [][Drained =>
          /\ Len(Written) = Cardinality(DOMAIN cacheA) + Cardinality(DOMAIN cacheB)
          /\ \A row \in RowsIn(cacheA) : Count(Written, delta(row, "-")) = 1
          /\ \A row \in RowsIn(cacheB) : Count(Written, delta(row, "+")) = 1
          /\ removedCount' = removedCount + Cardinality(DOMAIN cacheA)
          /\ addedCount' = addedCount + Cardinality(DOMAIN cacheB)
          /\ modifiedCount' = modifiedCount /\ totalCount' = totalCount]_vars

\* both caches held two rows and were flushed
C9_Witness ==
    /\ pc = "exit"
    /\ Cardinality(DOMAIN cacheA) = 2 /\ Cardinality(DOMAIN cacheB) = 2
    /\ Len(out) = 4 /\ removedCount = 2 /\ addedCount = 2

CountersMatchRows ==
    /\ addedCount = Marked("+")
    /\ removedCount = Marked("-")
    /\ modifiedCount = Marked("#")

\* C10 as stated (with the unchanged rows written, so that they can be
\* counted): at the end of a run added, removed and modified are the numbers
\* of "+", "-" and "#" rows written, and total is the number of classified
\* outcomes, added + removed + modified + unchanged pairs.
C10_TotalCountsOutcomes ==
    (pc = "done" /\ cfg.common) =>
        /\ CountersMatchRows
        /\ totalCount = Marked("+") + Marked("-") + Marked("#") + Marked("=")

\* C10, amended: added, removed and modified are incremented exactly once
\* per "+", "-" and "#" row written (rows found through a cache and rows of
\* the drain included), so they equal the numbers of such rows at any time;
\* total is incremented once per pass of the loop that read a row and
\* classified it, so at the end of a run it is the length of the longer file,
\* not the number of outcomes.
C10_Counters ==
    /\ CountersMatchRows
    /\ pc \in {"loop", "exit", "done"} => totalCount = Max(posA, posB)
    /\ pc = "done" => totalCount = Max(Len(inA), Len(inB))

\* a run of two passes with a pair found through a cache and rows added and
\* removed at the drain: three outcomes, total 2
C10_Witness ==
    /\ pc = "done" /\ totalCount = 2 /\ first
    /\ addedCount = 1 /\ removedCount = 1 /\ Marked("=") = 1 /\ Len(out) = 3

\* the run died in checkRow, with the one-based index it names
ConfigFault ==
    \E i \in 1..Len(err) :
        err[i].type = "fatal" /\ err[i].what \in {"Key index", "Ignored field"}

\* C11: when every key index and every ignored index is a position of every
\* row of both files, no run dies with the "index out of range" fault of
\* checkRow, whatever the lengths of the files and the order of their rows
\* (also when one file is exhausted before any aligned pair of equal keys).
C11_FaultOnlyWhenOutOfRange == IndexesInRange => ~ConfigFault

(* ----------------------- the command line ---------------------------- *)
\* atouis on the list s of the numbers given to -k or -i: values[i] = f - 1
\* in uint64, so the number 0 gives 2^64 - 1.  The value is only ever used as
\* int(key) (checkRow, the ignoredFields map) or as an index (hashRow); the
\* model keeps int(f - 1), which is -1 for the wrapped value.
atouis(s) == [i \in 1..Len(s) |-> IF s[i] = 0 THEN -1 ELSE s[i] - 1]

\* parseArgs for "-k k -i i" and the flags -n, -c, -f
parseArgs(k, i, n, c, f) ==
    MkConfig(atouis(k), {atouis(i)[j] : j \in 1..Len(i)}, n, c, f)

ArgConfigs ==
    { parseArgs(<<0>>,    <<>>,  FALSE, FALSE, 1),
      parseArgs(<<1>>,    <<0>>, TRUE,  TRUE,  2),
      parseArgs(<<2>>,    <<>>,  FALSE, TRUE,  1),
      parseArgs(<<1, 2>>, <<2>>, TRUE,  FALSE, 0) }

InitArgs == cfg \in ArgConfigs /\ inA \in Files /\ inB \in Files /\ Fresh

SpecArgs == InitArgs /\ [][Next]_vars

\* the rows the pass reads
ReadRows == {NextA, NextB} \ {Nil}

\* every key index is a position of the row
KeysFit(row) == ~HashPanics(row, cfg.keys)

\* C12: every row that is hashed has all key indexes in range: a pass of the
\* loop that reads a row too short for a key index (or is run with a key
\* index that wrapped around from the number 0) dies with the fatal fault of
\* checkRow, and no pass ends in an out-of-bounds access in hashRow.
C12_HashedInRange ==
    [][Pass => /\ (\E row \in ReadRows : ~KeysFit(row)) => ConfigFault'
               /\ pc' # "panic"]_vars

\* longer files of rows of two fields and of one row of one field, too short
\* for the second index
FaultRows == RowsOfLen(2) \cup {<<"a">>}
FaultFiles == SeqsUpTo(FaultRows, MaxRows + 1)

FaultConfigs ==
    { MkConfig(<<1>>, {},  FALSE, FALSE, 1),
      MkConfig(<<0>>, {1}, TRUE,  TRUE,  2) }

InitFault == cfg \in FaultConfigs /\ inA \in FaultFiles /\ inB \in FaultFiles /\ Fresh

SpecFault == InitFault /\ [][Next]_vars

\* the "+", "-" and "#" rows written so far
DeltaRows == Marked("+") + Marked("-") + Marked("#")

\* C13: whenever a run dies with the out-of-range fault of checkRow (key
\* index or ignored field), no delta row has been written before.
C13_FaultBeforeOutput == ConfigFault => DeltaRows = 0

\* the field holds a two-value encoding
TwoValued(field) ==
    \E x, y \in Values \cup {"_"} : field = concat(x, y, cfg.format, cfg.symbol)

\* the positions, from 0, that hold a two-value encoding in some "#" row
\* written so far
ModifiedPositions ==
    UNION {{i \in 0..(Len(out[k]) - 2) : TwoValued(out[k][i + 2])} :
              k \in {n \in 1..Len(out) : out[n][1] = "#"}}

\* the one-based indexes listed in the "Modified fields:" line of the summary
Listed ==
    UNION {{err[k].fields[j].index : j \in 1..Len(err[k].fields)} :
              k \in {n \in 1..Len(err) : err[n].type = "modified fields"}}

\* C14: at the end of a run every position that holds a two-value encoding
\* in some "#" row written, and that lies within the field count the
\* tracking vector was sized to, is set in the vector and listed in the
\* summary; the modifications of the first pair compared and those found
\* through a cache included.
C14_TrackingComplete ==
    pc = "done" =>
        \A i \in ModifiedPositions :
            i < Len(modifiedFields) => (modifiedFields[i + 1] /\ (i + 1) \in Listed)

\* the header row is captured (when there is one) and the tracking vector is
\* sized, in the state the pass ends in
Captured ==
    /\ ~first'
    /\ modifiedFields' # Nil
    /\ ~cfg.noHeader => headers' # Nil

\* C15: a pass of the loop that compares a pair of rows (an aligned pair or
\* a pair formed through a cache hit, equal or modified) leaves the header
\* row captured, when headers are enabled, and the tracking vector sized; so
\* no pair is compared in a later pass while the vector is still unsized.
C15_CaptureAtFirstPair ==
    [][(Classified /\ PairsOfPass # <<>>) => Captured]_vars

\* no position of the row the comparator returned holds a two-value encoding
Unmarked(rowDelta) == \A j \in 2..Len(rowDelta) : ~TwoValued(rowDelta[j])

\* what areEquals returns for the pair
Compared(p) == areEquals(p.a, p.b, cfg, modifiedFields)

\* C16: for every pair of rows a pass of the loop compares, under every
\* ignored set, the comparator reports equal = true if and only if no
\* position was marked changed (no position of its result holds a two-value
\* encoding), and a "#" row is written for the pair only when it is not
\* equal; so two rows of different lengths whose extra positions are all
\* ignored are reported equal.
C16_EqualIffUnmarked ==
    [][Classified =>
          \A n \in 1..Len(PairsOfPass) :
              /\ Compared(PairsOfPass[n]).same <=> Unmarked(Compared(PairsOfPass[n]).rowDelta)
              /\ Compared(PairsOfPass[n]).same <=> DeltasFor(PairsOfPass[n]) = {}]_vars

\* runs on the longer files of rows of two fields, keyed by the first field
\* (rows of one key may differ) or by both (four keys)
ProbeConfigs ==
    { MkConfig(<<0>>,    {}, FALSE, FALSE, 1),
      MkConfig(<<0, 1>>, {}, TRUE,  TRUE,  2) }

InitProbe == cfg \in ProbeConfigs /\ inA \in LongFiles /\ inB \in LongFiles /\ Fresh

SpecProbe == InitProbe /\ [][Next]_vars

\* what the comparison of the pair writes; shown is the row just read
OutcomeOf(p, shown) ==
    IF DeltaDue(p) # <<>> THEN DeltaDue(p)
    ELSE IF cfg.common THEN <<delta(shown, "=")>>
    ELSE <<>>

\* the misalignment step, told from the state it starts in
C17_StepHolds ==
    LET ha   == KeyOf(NextA)
        hb   == KeyOf(NextB)
        hitA == ha \in DOMAIN cacheB
        hitB == hb \in DOMAIN cacheA
        a1   == IF hitA THEN cacheA ELSE Put(cacheA, ha, NextA)
        b1   == IF hitA THEN Delete(cacheB, ha) ELSE cacheB
        outA == IF hitA THEN OutcomeOf(Pair(NextA, cacheB[ha], "cacheB"), NextA) ELSE <<>>
        outB == IF hitB THEN OutcomeOf(Pair(cacheA[hb], NextB, "cacheA"), NextB) ELSE <<>>
    IN  /\ pc' = "loop"
        /\ cacheA' = (IF hitB THEN Delete(a1, hb) ELSE a1)
        /\ cacheB' = (IF hitB THEN b1 ELSE Put(b1, hb, NextB))
        /\ Written = outA \o outB
        /\ hitA <=> ~(ha \in DOMAIN cacheA' /\ cacheA'[ha] = NextA)
        /\ hitB <=> ~(hb \in DOMAIN cacheB' /\ cacheB'[hb] = NextB)

\* C17: in a pass that reads two rows of different hashes both probes are
\* made, the one for A first: if cache B holds hash(A) that entry is removed
\* and paired with A, otherwise A is stored in cache A under hash(A); then,
\* whatever the probe for A found, if cache A holds hash(B) that entry is
\* removed and paired with B, otherwise B is stored in cache B under
\* hash(B).  After the pass each of the two rows is either paired or held
\* in the cache of its own side, never both and never neither.
C17_Misalignment == [][(Pass /\ Misaligned) => C17_StepHolds]_vars

\* the probe for A hit, the probe for B did not: A was paired with the row
\* that waited in cache B, B waits in cache B
C17_Witness ==
    /\ pc = "loop" /\ posA = 2 /\ posB = 2 /\ cfg.common
    /\ KeyOf(inA[1]) # KeyOf(inB[1])
    /\ KeyOf(inA[2]) = KeyOf(inB[1])
    /\ KeyOf(inB[2]) \notin {KeyOf(inA[1]), KeyOf(inA[2])}
    /\ DOMAIN cacheA = {KeyOf(inA[1])} /\ DOMAIN cacheB = {KeyOf(inB[2])}
    /\ out = <<delta(inA[2], "=")>>

(* main is one sequential process: as long as it has a step to take it     *)
(* takes one.  A read error is a fault of the environment and is never     *)
(* bound to happen.  The fairness of the loop is WF_vars(Iterate) written  *)
(* out, with the guard of Iterate for ENABLED <<Iterate>>_vars: every pass *)
(* changes the state (C18 checks that it does).                            *)
IterateEnabled == pc = "loop" /\ (~eofA \/ ~eofB)

SpecLive ==
    /\ Init /\ [][Next]_vars
    /\ ([]<>(~IterateEnabled) \/ []<><<Iterate>>_vars)
    /\ WF_vars(Drain) /\ WF_vars(Exit)

\* the state n a pass ends in has a row consumed or a reader marked exhausted
Progress(n) ==
    \/ n.posA > posA \/ n.posB > posB
    \/ (~eofA /\ n.eofA) \/ (~eofB /\ n.eofB)

\* every row held in the caches has been written with the sign of its side
Flushed ==
    /\ \A row \in RowsIn(cacheA) : Count(out, delta(row, "-")) >= 1
    /\ \A row \in RowsIn(cacheB) : Count(out, delta(row, "+")) >= 1

\* C18: for all finite inputs the run eventually stops (normal completion or
\* fatal abort); each pass of the loop consumes at least one row or marks a
\* reader exhausted, an exhausted reader is never read again, and at normal
\* completion both readers are exhausted and both caches have been drained.
C18_Termination ==
    /\ <>Ended
    /\ [](IterateEnabled => \A n \in IterOutcomes(Cur, inA, inB, cfg) : Progress(n))
    /\ [][(eofA => (eofA' /\ posA' = posA)) /\ (eofB => (eofB' /\ posB' = posB))]_vars
    /\ [](pc = "done" => (eofA /\ eofB /\ posA = Len(inA) /\ posB = Len(inB) /\ Flushed))

\* a complete run on files of different lengths: the shorter file was
\* exhausted first and the loop went on with the other
C18_Witness ==
    /\ pc = "done" /\ eofA /\ eofB
    /\ Len(inA) = MaxRows /\ Len(inB) = 1
    /\ totalCount = MaxRows /\ removedCount = 1

\* the keys of the rows written with the sign
KeysMarked(sign) ==
    {KeyOf(Tail(out[k])) : k \in {n \in 1..Len(out) : out[n][1] = sign}}

\* C19: in every reachable state no key hash is present in both cache A and
\* cache B; and in any run no key hash is written both as a "+" row and as a
\* "-" row, also with duplicate keys and files of different lengths.
C19_CachesDisjoint ==
    /\ DOMAIN cacheA \cap DOMAIN cacheB = {}
    /\ KeysMarked("+") \cap KeysMarked("-") = {}

\* a complete run on files of different lengths, with a row removed in a
\* pass of its own and a row of each cache written at the drain
C19_Witness ==
    /\ pc = "done" /\ Len(inA) = MaxRows + 1 /\ Len(inB) = MaxRows
    /\ DOMAIN cacheA # {} /\ DOMAIN cacheB # {}
    /\ Marked("-") = 2 /\ Marked("+") = 1

\* how many of the rows written with one of the signs have the key
Uses(signs, key) ==
    Cardinality({k \in 1..Len(out) : out[k][1] \in signs /\ KeyOf(Tail(out[k])) = key})

\* how many of the first n rows of the file have the key
Read(file, n, key) == Cardinality({k \in 1..n : KeyOf(file[k]) = key})

\* C20: after any sequence of steps no input row has contributed to more
\* than one outcome: for every key, the rows written as pairs ("=" or "#")
\* or as "-" rows are at most as many as the rows of that key read from
\* FILEA, and the rows written as pairs or as "+" rows at most as many as
\* the rows of that key read from FILEB; so a row that was paired (aligned,
\* or taken from a cache) is not paired again nor written later as "+" or
\* "-", and a row written as "+" or "-" is written once.
C20_AtMostOnce ==
    /\ \A key \in KeysOf(inA) : Uses({"=", "#", "-"}, key) <= Read(inA, posA, key)
    /\ \A key \in KeysOf(inB) : Uses({"=", "#", "+"}, key) <= Read(inB, posB, key)
    /\ KeysMarked("=") \cup KeysMarked("#") \cup KeysMarked("-") \subseteq KeysOf(inA)
    /\ KeysMarked("=") \cup KeysMarked("#") \cup KeysMarked("+") \subseteq KeysOf(inB)

\* a complete run with no aligned pair: one pair was made through a cache,
\* two rows of each file were left over and written at the drain
C20_Witness ==
    /\ pc = "done" /\ first /\ cfg.common /\ Len(inA) = MaxRows + 1
    /\ Marked("=") = 1 /\ Marked("+") = 2 /\ Marked("-") = 2

=============================================================================
